---- MODULE Spec2Model ----
(***************************************************************************)
(* State-machine model of channels_lite: one Author channel                *)
(* (channel_author.rs) and the Subscriber channels (channel_subscriber.rs) *)
(* talking through the Tangle, the append-only transport.                  *)
(*                                                                         *)
(* The iota_streams library is a collaborator of the two files.  It is     *)
(* modelled by what the calls made in the source rely on:                  *)
(*   - a message link is derived from the publisher, the link the message  *)
(*     is attached to and the publisher's sequence number (LinkFrom);      *)
(*   - a party can wrap or unwrap a message only when it holds the         *)
(*     state of the link the message is attached to (its "store");         *)
(*   - a keyload can be unwrapped only by the subscribers it was made for; *)
(*   - recv_messages returns every message at an address, recv_message     *)
(*     the single one;                                                     *)
(*   - unwrapping the announcement puts the subscriber's cursor on it, and *)
(*     store_state_for_all moves the cursor to the message just found.     *)
(***************************************************************************)
EXTENDS Naturals, Sequences, FiniteSets, TLC

\* Bound on the number of messages in the transport.
MaxMsgs == 5

AuthorPk == "author"
Subscribers == {"s1", "s2"}

\* String::default(): the "not set yet" tag of the Author's fields.
NoTag == <<>>
\* Address::default().msgid: the subscriber's link before it subscribed.
DefaultMsgId == <<"default">>

LinkFrom(pk, prev, seq) == <<pk, prev, seq>>
\* The announcement's link depends on the author's identity alone.
AnnLink == LinkFrom(AuthorPk, NoTag, 0)

ANNOUNCE == "Announce"
SUBSCRIBE == "Subscribe"
KEYLOAD == "Keyload"
SIGNED_PACKET == "Signed"
TAGGED_PACKET == "Tagged"
\* The content type of a message whose header does not parse (parse_header
\* returns Err).
MALFORMED == "Malformed"

\* Whoever republishes a corrupted copy of a message: nothing that carries
\* this identity verifies against the author's key.
IntruderPk == "intruder"
\* Bound on the number of corrupted copies in the transport.
MaxTampered == 1

\* The payloads a caller hands to write_signed / write_tagged: a public and a
\* masked part, either of which may be empty.
Payloads ==
    { [public |-> "P1", masked |-> "M1"],
      [public |-> "P1", masked |-> ""],
      [public |-> "", masked |-> "M1"] }

None == <<>>
Some(x) == <<x>>

\* Payload::unwrap_data: an empty part is reported as absent.
unwrap_data(d) == IF d = "" THEN None ELSE Some(d)

VARIABLES
    transport,          \* the Tangle: the sequence of published envelopes
    author,             \* the Author's library state (store, subscribers, seq)
    announcement_id,    \* channel_author::Channel fields
    last_keyload_tag,
    previous_msg_tag,
    subscriber,         \* per subscriber: the library state (store, cursor)
    is_connected,       \* channel_subscriber::Channel fields
    subscription_link,
    instances,          \* the subscribers constructed (Channel::new)
    last,               \* the last call: operation, caller, argument, result
    e2e                 \* progress of the run through the example's scenario

vars == <<transport, author, announcement_id, last_keyload_tag, previous_msg_tag,
          subscriber, is_connected, subscription_link, instances, last, e2e>>

authorVars == <<author, announcement_id, last_keyload_tag, previous_msg_tag>>
subscriberVars == <<subscriber, is_connected, subscription_link>>

Envelope(link, ctype, pk, prev, public, masked, grantees) ==
    [link |-> link, ctype |-> ctype, pk |-> pk, prev |-> prev,
     public |-> public, masked |-> masked, grantees |-> grantees]

Call(op, who, arg, outcome, ret) ==
    [op |-> op, who |-> who, arg |-> arg, outcome |-> outcome, ret |-> ret]

\* recv_messages_with_options: every message at the address.
MessagesAt(link) == SelectSeq(transport, LAMBDA e : e.link = link)

\* tx.parse_header()?: whether the loop over the messages meets one whose
\* header does not parse, and the messages it handles before that.
HeaderFails(msgs) == \E i \in 1..Len(msgs) : msgs[i].ctype = MALFORMED
Parsed(msgs) ==
    IF HeaderFails(msgs)
    THEN SubSeq(msgs, 1,
                (CHOOSE i \in 1..Len(msgs) :
                    /\ msgs[i].ctype = MALFORMED
                    /\ \A j \in 1..(i - 1) : msgs[j].ctype # MALFORMED) - 1)
    ELSE msgs
\* The error a call returns when a header does not parse.
ParseError == <<"parse_header">>

Links == { transport[i].link : i \in 1..Len(transport) }

\* The tags a caller may pass: the tag of any published message, the empty
\* string, or the default link connect() returns when it found nothing.
TagInputs == Links \cup {NoTag, DefaultMsgId}

\* What from_str(..).unwrap() may do with an empty tag; other tags parse.
UnwrapOutcomes(tag) == IF tag = NoTag THEN {"panic", "proceed"} ELSE {"proceed"}

Init ==
    /\ transport = <<>>
    /\ author = [store |-> {}, subs |-> {}, seq |-> 1]
    /\ announcement_id = NoTag
    /\ last_keyload_tag = NoTag
    /\ previous_msg_tag = NoTag
    /\ subscriber = [s \in Subscribers |-> [store |-> {}, cursor |-> <<>>]]
    /\ is_connected = [s \in Subscribers |-> FALSE]
    /\ subscription_link = [s \in Subscribers |-> DefaultMsgId]
    /\ instances = {"s1"}
    /\ last = Call("new", AuthorPk, NoTag, "ok", NoTag)
    /\ e2e = "start"

(***************************************************************************)
(* The example's scenario (examples/example.rs, main): open, connect,      *)
(* add_subscriber, update_keyload, write_signed, get_next_message,         *)
(* read_signed.  e2e says how far the calls made so far follow it; any     *)
(* other call, or a failed one, leaves the scenario.                       *)
(***************************************************************************)
E2ENext(c) ==
    CASE e2e = "start" /\ c.op = "open" /\ c.outcome = "ok" -> "opened"
      [] e2e = "opened" /\ c.op = "connect" /\ c.outcome = "ok"
            /\ c.ret # DefaultMsgId -> "connected"
      [] e2e = "connected" /\ c.op = "add_subscriber" /\ c.outcome = "ok"
            /\ \E s \in Subscribers : is_connected[s] /\ c.arg = subscription_link[s]
            -> "granted"
      [] e2e = "granted" /\ c.op = "update_keyload" /\ c.outcome = "ok"
            /\ is_connected[c.who] /\ c.arg = last_keyload_tag -> "keyed"
      [] e2e = "keyed" /\ c.op = "write_signed" /\ c.outcome = "ok" -> "written"
      [] e2e = "written" /\ c.op = "get_next_message" /\ is_connected[c.who]
            -> "polled"
      [] e2e = "polled" /\ c.op = "read_signed" /\ c.outcome = "ok"
            /\ is_connected[c.who] /\ c.arg = previous_msg_tag -> "read"
      [] OTHER -> "off"

(***************************************************************************)
(* channel_author.rs                                                       *)
(***************************************************************************)

\* Author::send_*: wrapping a message attached to link_to needs the state of
\* link_to, which the author holds for the messages it sent itself.
AuthorCanLink(link_to) == link_to \in author.store

\* The author's library state after it sent the message at `link`.
AuthorSent(link) ==
    [author EXCEPT !.store = @ \cup {link}, !.seq = @ + 1]

\* Channel::open.  net: whether the transport accepts the message.
open(net) ==
    /\ Len(transport) < MaxMsgs
    /\ LET ok == net
           c == Call("open", AuthorPk, NoTag,
                     IF ok THEN "ok" ELSE "err", IF ok THEN AnnLink ELSE NoTag)
       IN  /\ transport' =
                IF ok
                THEN Append(transport,
                            Envelope(AnnLink, ANNOUNCE, AuthorPk, NoTag, "", "", {}))
                ELSE transport
           /\ author' = IF ok THEN [author EXCEPT !.store = @ \cup {AnnLink}]
                              ELSE author
           /\ announcement_id' = IF ok THEN AnnLink ELSE announcement_id
           /\ last' = c
           /\ e2e' = E2ENext(c)
    /\ UNCHANGED <<instances, last_keyload_tag, previous_msg_tag, subscriberVars>>

\* Author::receive_subscribe: the single message at the link, which must be a
\* subscription attached to a link the author holds the state of.
ReceiveSubscribeOk(subscribe_tag) ==
    /\ Len(MessagesAt(subscribe_tag)) = 1
    /\ MessagesAt(subscribe_tag)[1].ctype = SUBSCRIBE
    /\ MessagesAt(subscribe_tag)[1].prev \in author.store

\* Registered, were a subscription to replace the ones received before it.
RegisteredAlone(subs, pk) == {pk}

\* Author::receive_subscribe (line 89): the subscriber is added to the ones the
\* author knows; send_keyload_for_everyone (line 95) grants all of them.
Registered(subs, pk) == subs \cup {pk}

\* The link add_subscriber attaches the keyload to (lines 91-95).
KeyloadLinkTo == announcement_id

\* Channel::add_subscriber.  fail: where the transport fails, if it does.
\* ub: what Address::from_str(..).unwrap() does with an empty tag (it panics,
\* or proceeds with an address nobody holds the state of and no message is at).
add_subscriber(subscribe_tag, fail, ub) ==
    /\ Len(transport) < MaxMsgs
    /\ LET received == fail # "recv" /\ ReceiveSubscribeOk(subscribe_tag)
           subs == IF received
                   THEN Registered(author.subs, MessagesAt(subscribe_tag)[1].pk)
                   ELSE author.subs
           link_to == KeyloadLinkTo
           link == LinkFrom(AuthorPk, link_to, author.seq)
           outcome == IF ~received THEN "err"
                      ELSE IF link_to = NoTag /\ ub = "panic" THEN "panic"
                      ELSE IF ~AuthorCanLink(link_to) \/ fail = "send" THEN "err"
                      ELSE "ok"
           ok == outcome = "ok"
           c == Call("add_subscriber", AuthorPk, subscribe_tag, outcome,
                     IF ok THEN link ELSE NoTag)
       IN  /\ transport' =
                IF ok
                THEN Append(transport,
                            Envelope(link, KEYLOAD, AuthorPk, link_to, "", "", subs))
                ELSE transport
           /\ author' = IF ok THEN [AuthorSent(link) EXCEPT !.subs = subs]
                              ELSE [author EXCEPT !.subs = subs]
           /\ last_keyload_tag' = IF ok THEN link ELSE last_keyload_tag
           /\ last' = c
           /\ e2e' = E2ENext(c)
    /\ UNCHANGED <<instances, announcement_id, previous_msg_tag, subscriberVars>>

\* PacketLinkTo, were it to ignore previous_msg_tag.
PacketLinkToKeyload == last_keyload_tag

\* PacketLinkTo, were it to fall back on the announcement.
PacketLinkToAnnouncement ==
    IF previous_msg_tag # NoTag THEN previous_msg_tag
    ELSE IF last_keyload_tag # NoTag THEN last_keyload_tag
    ELSE announcement_id

\* The link write_signed and write_tagged attach the packet to
\* (lines 110-128 and 146-166).
PacketLinkTo ==
    IF previous_msg_tag = NoTag THEN last_keyload_tag ELSE previous_msg_tag

\* What both writes do up to the send: the outcome and the envelope.
WritePacket(op, ctype, payload, net, ub) ==
    LET link_to == PacketLinkTo
        link == LinkFrom(AuthorPk, link_to, author.seq)
        outcome == IF link_to = NoTag /\ ub = "panic" THEN "panic"
                   ELSE IF ~AuthorCanLink(link_to) \/ ~net THEN "err"
                   ELSE "ok"
    IN  [call |-> Call(op, AuthorPk, payload, outcome,
                       IF outcome = "ok" THEN link ELSE NoTag),
         envelope |-> Envelope(link, ctype, AuthorPk, link_to,
                               payload.public, payload.masked, {})]

\* write_signed, were previous_msg_tag assigned before the send is known to
\* have succeeded.
write_signedEager(payload, net, ub) ==
    /\ Len(transport) < MaxMsgs
    /\ LET w == WritePacket("write_signed", SIGNED_PACKET, payload, net, ub)
           ok == w.call.outcome = "ok"
       IN  /\ transport' = IF ok THEN Append(transport, w.envelope) ELSE transport
           /\ author' = IF ok THEN AuthorSent(w.envelope.link) ELSE author
           /\ previous_msg_tag' = w.envelope.link
           /\ last' = w.call
           /\ e2e' = E2ENext(w.call)
    /\ UNCHANGED <<instances, announcement_id, last_keyload_tag, subscriberVars>>

\* Channel::write_signed
write_signed(payload, net, ub) ==
    /\ Len(transport) < MaxMsgs
    /\ LET w == WritePacket("write_signed", SIGNED_PACKET, payload, net, ub)
           ok == w.call.outcome = "ok"
       IN  /\ transport' = IF ok THEN Append(transport, w.envelope) ELSE transport
           /\ author' = IF ok THEN AuthorSent(w.envelope.link) ELSE author
           /\ previous_msg_tag' = IF ok THEN w.envelope.link ELSE previous_msg_tag
           /\ last' = w.call
           /\ e2e' = E2ENext(w.call)
    /\ UNCHANGED <<instances, announcement_id, last_keyload_tag, subscriberVars>>

\* Channel::write_tagged: previous_msg_tag is not assigned.
write_tagged(payload, net, ub) ==
    /\ Len(transport) < MaxMsgs
    /\ LET w == WritePacket("write_tagged", TAGGED_PACKET, payload, net, ub)
           ok == w.call.outcome = "ok"
       IN  /\ transport' = IF ok THEN Append(transport, w.envelope) ELSE transport
           /\ author' = IF ok THEN AuthorSent(w.envelope.link) ELSE author
           /\ last' = w.call
           /\ e2e' = E2ENext(w.call)
    /\ UNCHANGED <<instances, announcement_id, last_keyload_tag, previous_msg_tag,
                   subscriberVars>>

(***************************************************************************)
(* channel_subscriber.rs                                                   *)
(***************************************************************************)

\* Channel::new: the announcement link the subscriber is constructed with is
\* the link of the author's announcement.
announcement_link(s) == AnnLink

\* CanUnwrap, were a keyload to open for any subscriber.
CanUnwrapAnyone(store, e, s) ==
    /\ e.pk = AuthorPk
    /\ e.prev \in store

\* Subscriber::unwrap_*: unwrapping needs the state of the link the message is
\* attached to; a keyload moreover lists the subscribers it is made for.  A
\* corrupted copy does not verify.
CanUnwrap(store, e, s) ==
    /\ e.pk = AuthorPk
    /\ e.prev \in store
    /\ e.ctype = KEYLOAD => s \in e.grantees

\* FoundValidMsg, were found_valid_msg never set.
FoundValidMsgNever(s) == FALSE

\* FoundValidMsg, were connect not to look for the announcement.
FoundValidMsgAlways(s) == TRUE

\* connect, lines 70-77: the announcements the loop can come to.
AnnouncesAt(s) ==
    SelectSeq(Parsed(MessagesAt(announcement_link(s))),
              LAMBDA e : e.ctype = ANNOUNCE)

\* connect, lines 68-77: an announcement is among the messages fetched, and
\* the first one the loop comes to unwraps.
FoundValidMsg(s) ==
    /\ Len(AnnouncesAt(s)) > 0
    /\ AnnouncesAt(s)[1].pk = AuthorPk

\* connect, lines 71 and 73: the loop returns an error.
ConnectLoopFails(s) ==
    IF Len(AnnouncesAt(s)) > 0
    THEN AnnouncesAt(s)[1].pk # AuthorPk
    ELSE HeaderFails(MessagesAt(announcement_link(s)))

\* What connect returns when nothing fails (line 90).
ConnectReturn(s, found, subscribe_link) ==
    [outcome |-> "ok",
     ret |-> IF found THEN subscribe_link ELSE subscription_link[s]]

\* connect, were is_connected set before the Subscribe message is sent.
connectEarly(s, fail) ==
    /\ Len(transport) < MaxMsgs
    /\ LET found == fail # "recv" /\ FoundValidMsg(s)
           subscribe_link == LinkFrom(s, announcement_link(s), 0)
           sent == found /\ fail # "send"
           r == IF fail = "recv" \/ (found /\ ~sent)
                THEN [outcome |-> "err", ret |-> NoTag]
                ELSE IF ConnectLoopFails(s)
                THEN [outcome |-> "err", ret |-> ParseError]
                ELSE ConnectReturn(s, found, subscribe_link)
           c == Call("connect", s, NoTag, r.outcome, r.ret)
       IN  /\ transport' =
                IF sent
                THEN Append(transport,
                            Envelope(subscribe_link, SUBSCRIBE, s,
                                     announcement_link(s), "", "", {}))
                ELSE transport
           /\ subscriber' =
                IF found
                THEN [subscriber EXCEPT
                        ![s] = [store |-> @.store \cup {announcement_link(s)},
                                cursor |-> <<announcement_link(s), 1>>]]
                ELSE subscriber
           /\ subscription_link' =
                IF sent THEN [subscription_link EXCEPT ![s] = subscribe_link]
                        ELSE subscription_link
           /\ is_connected' =
                IF found THEN [is_connected EXCEPT ![s] = TRUE] ELSE is_connected
           /\ last' = c
           /\ e2e' = E2ENext(c)
    /\ UNCHANGED <<instances, authorVars>>

\* Channel::connect.  fail: where the transport fails, if it does.
connect(s, fail) ==
    /\ Len(transport) < MaxMsgs
    /\ LET found == fail # "recv" /\ FoundValidMsg(s)
           subscribe_link == LinkFrom(s, announcement_link(s), 0)
           sent == found /\ fail # "send"
           r == IF fail = "recv" \/ (found /\ ~sent)
                THEN [outcome |-> "err", ret |-> NoTag]
                ELSE IF ConnectLoopFails(s)
                THEN [outcome |-> "err", ret |-> ParseError]
                ELSE ConnectReturn(s, found, subscribe_link)
           c == Call("connect", s, NoTag, r.outcome, r.ret)
       IN  /\ transport' =
                IF sent
                THEN Append(transport,
                            Envelope(subscribe_link, SUBSCRIBE, s,
                                     announcement_link(s), "", "", {}))
                ELSE transport
           /\ subscriber' =
                IF found
                THEN [subscriber EXCEPT
                        ![s] = [store |-> @.store \cup {announcement_link(s)},
                                cursor |-> <<announcement_link(s), 1>>]]
                ELSE subscriber
           /\ subscription_link' =
                IF sent THEN [subscription_link EXCEPT ![s] = subscribe_link]
                        ELSE subscription_link
           /\ is_connected' =
                IF sent THEN [is_connected EXCEPT ![s] = TRUE] ELSE is_connected
           /\ last' = c
           /\ e2e' = E2ENext(c)
    /\ UNCHANGED <<instances, authorVars>>

\* Unwrapped, were the content type of a message not looked at.
UnwrappedAnyType(s, link, ctype) ==
    SelectSeq(Parsed(MessagesAt(link)),
              LAMBDA e : CanUnwrap(subscriber[s].store, e, s))

\* The messages of content type ctype at the link which s can unwrap, among
\* those the loop comes to.
Unwrapped(s, link, ctype) ==
    SelectSeq(Parsed(MessagesAt(link)),
              LAMBDA e : e.ctype = ctype /\ CanUnwrap(subscriber[s].store, e, s))

\* The subscriber's library state after the messages unwrapped at the link.
Stored(s, link, msgs) ==
    IF Len(msgs) > 0
    THEN [subscriber EXCEPT ![s].store = @ \cup {link}]
    ELSE subscriber

\* Response, were the two halves pushed in the wrong order.
ResponseSwapped(msgs) ==
    [i \in 1..Len(msgs) |->
        <<unwrap_data(msgs[i].masked), unwrap_data(msgs[i].public)>>]

\* read_signed / read_tagged, lines 120-139 and 162-181: one pair per message
\* of the wanted content type that unwraps.
Response(msgs) ==
    [i \in 1..Len(msgs) |->
        <<unwrap_data(msgs[i].public), unwrap_data(msgs[i].masked)>>]

\* What read_signed and read_tagged do, for the content type each wants.
\* net: whether the fetch succeeds; ub: as for the author's from_str.
ReadPacket(op, ctype, s, tag, net, ub) ==
    LET msgs == IF is_connected[s] /\ net /\ ~(tag = NoTag /\ ub = "panic")
                THEN Unwrapped(s, tag, ctype)
                ELSE <<>>
        parse_err == HeaderFails(MessagesAt(tag))
        outcome == IF ~is_connected[s] THEN "ok"
                   ELSE IF tag = NoTag /\ ub = "panic" THEN "panic"
                   ELSE IF ~net \/ parse_err THEN "err"
                   ELSE "ok"
    IN  [call |-> Call(op, s, tag, outcome,
                       IF outcome = "ok" THEN Response(msgs)
                       ELSE IF is_connected[s] /\ net /\ parse_err THEN ParseError
                       ELSE <<>>),
         subscriber |-> Stored(s, tag, msgs)]

\* Channel::read_signed
read_signed(s, tag, net, ub) ==
    /\ LET r == ReadPacket("read_signed", SIGNED_PACKET, s, tag, net, ub)
       IN  /\ subscriber' = r.subscriber
           /\ last' = r.call
           /\ e2e' = E2ENext(r.call)
    /\ UNCHANGED <<instances, transport, authorVars, is_connected, subscription_link>>

\* Channel::read_tagged
read_tagged(s, tag, net, ub) ==
    /\ LET r == ReadPacket("read_tagged", TAGGED_PACKET, s, tag, net, ub)
       IN  /\ subscriber' = r.subscriber
           /\ last' = r.call
           /\ e2e' = E2ENext(r.call)
    /\ UNCHANGED <<instances, transport, authorVars, is_connected, subscription_link>>

\* Channel::update_keyload: the address is built before is_connected is looked
\* at (line 193); the loop ends at the first keyload that unwraps (line 204).
update_keyload(s, tag, net, ub) ==
    /\ LET panic == tag = NoTag /\ ub = "panic"
           fetched == ~panic /\ is_connected[s] /\ net
           msgs == IF fetched THEN Unwrapped(s, tag, KEYLOAD) ELSE <<>>
           parse_err == fetched /\ Len(msgs) = 0 /\ HeaderFails(MessagesAt(tag))
           outcome == IF panic THEN "panic"
                      ELSE IF (is_connected[s] /\ ~net) \/ parse_err THEN "err"
                      ELSE "ok"
           c == Call("update_keyload", s, tag, outcome,
                     IF parse_err THEN ParseError ELSE NoTag)
       IN  /\ subscriber' = Stored(s, tag, msgs)
           /\ last' = c
           /\ e2e' = E2ENext(c)
    /\ UNCHANGED <<instances, transport, authorVars, is_connected, subscription_link>>

\* get_next_message, lines 227-279, from the library state lib of s: the next
\* message id is derived from the cursor; a message found there is unwrapped
\* by its content type, the cursor moves to it, and the loop goes on.  fuel:
\* the number of fetches that succeed before the transport fails (.ok()).
\* StoreState, were the cursor left where it was.
StoreStateStuck(cursor, next_id) == cursor

\* store_state_for_all (lines 271-272): the cursor moves to the message found.
StoreState(cursor, next_id) == <<next_id, cursor[2] + 1>>

\* gen_next_msg_ids (line 228): the id derived from a library state.
NextId(lib) == LinkFrom(AuthorPk, lib.cursor[1], lib.cursor[2])

\* parse_header().unwrap() (line 246): the single message at the id derived
\* from the library state is one whose header does not parse.
HeaderPanics(lib) ==
    /\ lib.cursor # <<>>
    /\ Len(MessagesAt(NextId(lib))) = 1
    /\ MessagesAt(NextId(lib))[1].ctype = MALFORMED

RECURSIVE NextMessages(_, _, _)
NextMessages(s, lib, fuel) ==
    IF lib.cursor = <<>> \/ fuel = 0
    THEN lib
    ELSE LET next_id == NextId(lib)
             msgs == MessagesAt(next_id)
         IN  IF Len(msgs) # 1 \/ HeaderPanics(lib)
             THEN lib
             ELSE NextMessages(
                    s,
                    [store |-> IF /\ msgs[1].ctype \in
                                        {SIGNED_PACKET, TAGGED_PACKET, KEYLOAD}
                                  /\ CanUnwrap(lib.store, msgs[1], s)
                               THEN lib.store \cup {next_id}
                               ELSE lib.store,
                     cursor |-> StoreState(lib.cursor, next_id)],
                    fuel - 1)

\* What a call of get_next_message is recorded with when the transport failed
\* before the loop had reached a round without a next message.
FetchFailed == <<"fetch failed">>

\* Channel::get_next_message
get_next_message(s, fuel) ==
    /\ LET lib == NextMessages(s, subscriber[s], fuel)
           cut == lib # NextMessages(s, subscriber[s], Len(transport))
           rounds == IF lib.cursor = <<>> THEN 0
                     ELSE lib.cursor[2] - subscriber[s].cursor[2]
           c == Call("get_next_message", s, IF cut THEN FetchFailed ELSE NoTag,
                     IF fuel > rounds /\ HeaderPanics(lib) THEN "panic" ELSE "ok",
                     NoTag)
       IN  /\ subscriber' =
                [subscriber EXCEPT ![s] = lib]
           /\ last' = c
           /\ e2e' = E2ENext(c)
    /\ UNCHANGED <<instances, transport, authorVars, is_connected, subscription_link>>

Next ==
    \/ \E net \in BOOLEAN : open(net)
    \/ \E tag \in TagInputs, fail \in {"none", "recv", "send"},
          ub \in UnwrapOutcomes(KeyloadLinkTo) :
          add_subscriber(tag, fail, ub)
    \/ \E p \in Payloads, net \in BOOLEAN, ub \in UnwrapOutcomes(PacketLinkTo) :
          write_signed(p, net, ub)
    \/ \E p \in Payloads, net \in BOOLEAN, ub \in UnwrapOutcomes(PacketLinkTo) :
          write_tagged(p, net, ub)
    \/ \E s \in instances, fail \in {"none", "recv", "send"} : connect(s, fail)
    \/ \E s \in instances, tag \in Links \cup {NoTag}, net \in BOOLEAN :
          \E ub \in UnwrapOutcomes(tag) : update_keyload(s, tag, net, ub)
    \/ \E s \in instances, tag \in Links \cup {NoTag}, net \in BOOLEAN :
          \E ub \in UnwrapOutcomes(tag) : read_signed(s, tag, net, ub)
    \/ \E s \in instances, tag \in Links \cup {NoTag}, net \in BOOLEAN :
          \E ub \in UnwrapOutcomes(tag) : read_tagged(s, tag, net, ub)
    \/ \E s \in instances, fuel \in 0..Len(transport) : get_next_message(s, fuel)

Spec == Init /\ [][Next]_vars

(***************************************************************************)
(* The transport is open to everybody: a third party may republish, at the *)
(* address of a message, a corrupted copy of it.                           *)
(***************************************************************************)

Tampered == { i \in 1..Len(transport) : transport[i].pk = IntruderPk }

\* A copy of message i is published at its address: with a header that does
\* not parse (kind "header"), or with a content that does not verify.
tamper(i, kind) ==
    /\ Len(transport) < MaxMsgs
    /\ Cardinality(Tampered) < MaxTampered
    /\ transport[i].pk # IntruderPk
    /\ LET copy == IF kind = "header"
                   THEN [transport[i] EXCEPT !.pk = IntruderPk, !.ctype = MALFORMED]
                   ELSE [transport[i] EXCEPT !.pk = IntruderPk]
           c == Call("tamper", IntruderPk, transport[i].link, "ok", NoTag)
       IN  /\ transport' = Append(transport, copy)
           /\ last' = c
           /\ e2e' = E2ENext(c)
    /\ UNCHANGED <<instances, authorVars, subscriberVars>>

\* A message whose header does not parse is published at the address at which
\* subscriber s will look for the next message of the chain.
squat(s) ==
    /\ Len(transport) < MaxMsgs
    /\ Cardinality(Tampered) < MaxTampered
    /\ subscriber[s].cursor # <<>>
    /\ MessagesAt(NextId(subscriber[s])) = <<>>
    /\ LET c == Call("squat", IntruderPk, NextId(subscriber[s]), "ok", NoTag)
       IN  /\ transport' =
                Append(transport,
                       Envelope(NextId(subscriber[s]), MALFORMED, IntruderPk,
                                subscriber[s].cursor[1], "", "", {}))
           /\ last' = c
           /\ e2e' = E2ENext(c)
    /\ UNCHANGED <<instances, authorVars, subscriberVars>>

NextTamper ==
    \/ Next
    \/ \E i \in 1..Len(transport), kind \in {"header", "content"} : tamper(i, kind)
    \/ \E s \in instances : squat(s)

SpecTamper == Init /\ [][NextTamper]_vars

(***************************************************************************)
(* Two subscribers on the channel (example.rs constructs one; the author   *)
(* accepts any number): the calls that make and take up the grants.        *)
(***************************************************************************)

InitBoth ==
    /\ transport = <<>>
    /\ author = [store |-> {}, subs |-> {}, seq |-> 1]
    /\ announcement_id = NoTag
    /\ last_keyload_tag = NoTag
    /\ previous_msg_tag = NoTag
    /\ subscriber = [s \in Subscribers |-> [store |-> {}, cursor |-> <<>>]]
    /\ is_connected = [s \in Subscribers |-> FALSE]
    /\ subscription_link = [s \in Subscribers |-> DefaultMsgId]
    /\ instances = Subscribers
    /\ last = Call("new", AuthorPk, NoTag, "ok", NoTag)
    /\ e2e = "start"

NextGrant ==
    \/ \E net \in BOOLEAN : open(net)
    \/ \E tag \in TagInputs, fail \in {"none", "recv", "send"},
          ub \in UnwrapOutcomes(KeyloadLinkTo) :
          add_subscriber(tag, fail, ub)
    \/ \E s \in instances, fail \in {"none", "recv", "send"} : connect(s, fail)
    \/ \E s \in instances, tag \in Links \cup {NoTag}, net \in BOOLEAN :
          \E ub \in UnwrapOutcomes(tag) : update_keyload(s, tag, net, ub)
    \/ \E s \in instances, fuel \in 0..Len(transport) : get_next_message(s, fuel)
    \/ \E p \in Payloads, net \in BOOLEAN, ub \in UnwrapOutcomes(PacketLinkTo) :
          write_signed(p, net, ub)

SpecGrant == InitBoth /\ [][NextGrant]_vars

(***************************************************************************)
(* Properties                                                              *)
(***************************************************************************)

Indexes == 1..Len(transport)
OfType(ctype) == { i \in Indexes : transport[i].ctype = ctype }
Packets == OfType(SIGNED_PACKET) \cup OfType(TAGGED_PACKET)
Writes == {"write_signed", "write_tagged"}

\* A part of a payload as a reader sees it: absent when it is empty.
Part(d) == IF d = "" THEN <<>> ELSE <<d>>

\* C1: when the calls made are open, connect, add_subscriber with the tag
\* connect returned, update_keyload with the tag add_subscriber returned,
\* write_signed(p), get_next_message and read_signed on the tag write_signed
\* returned, the read returns one pair: p's public part and p's masked part.
EndToEndDelivery ==
    e2e = "read" =>
        \E i \in OfType(SIGNED_PACKET) :
            /\ transport[i].link = last.arg
            /\ last.ret = << <<Part(transport[i].public), Part(transport[i].masked)>> >>

EndToEndDeliveryWitness ==
    /\ e2e = "read"
    /\ last.op = "read_signed"
    /\ subscriber[last.who].cursor[1] = last.arg
    /\ last.ret = << << <<"P1">>, <<"M1">> >> >>

\* C2: no two envelopes the Author published after the announcement have the
\* same previous link.
SingleLinearChain ==
    \A i, j \in Indexes :
        ( /\ i < j
          /\ transport[i].pk = AuthorPk /\ transport[j].pk = AuthorPk
          /\ transport[i].ctype # ANNOUNCE /\ transport[j].ctype # ANNOUNCE )
        => transport[i].prev # transport[j].prev

\* C3: after a successful write_signed or write_tagged, previous_msg_tag is
\* the link of the envelope just published.
WriteAdvancesPreviousMsgTag ==
    (last.op \in Writes /\ last.outcome = "ok") => previous_msg_tag = last.ret

\* C4: a step that publishes a Signed or Tagged envelope attaches it to
\* previous_msg_tag if that is set, else to last_keyload_tag if that is set,
\* else to the announcement.
PacketPreviousLink ==
    [][ ( /\ Len(transport') = Len(transport) + 1
          /\ transport'[Len(transport')].ctype \in {SIGNED_PACKET, TAGGED_PACKET} )
        => transport'[Len(transport')].prev =
              IF previous_msg_tag # NoTag THEN previous_msg_tag
              ELSE IF last_keyload_tag # NoTag THEN last_keyload_tag
              ELSE announcement_id ]_vars

PacketPreviousLinkWitness ==
    \E i, j \in Packets, k \in OfType(KEYLOAD) :
        /\ transport[i].prev = transport[k].link
        /\ transport[j].prev = transport[i].link

\* C5: a Keyload envelope is attached to the keyload published before it, and
\* to the announcement only when there is none.
KeyloadPreviousLink ==
    \A i \in OfType(KEYLOAD) :
        LET before == { k \in OfType(KEYLOAD) : k < i }
        IN  transport[i].prev =
                IF before = {}
                THEN AnnLink
                ELSE transport[CHOOSE k \in before : \A m \in before : m <= k].link

\* C6: after a successful add_subscriber, last_keyload_tag and
\* previous_msg_tag are both the link of the Keyload envelope just published.
GrantSetsBothTags ==
    (last.op = "add_subscriber" /\ last.outcome = "ok")
    => (last_keyload_tag = last.ret /\ previous_msg_tag = last.ret)

\* C7: every envelope other than an announcement is attached to a link at
\* which an envelope was published before it.
ChainIntegrity ==
    \A i \in Indexes :
        transport[i].ctype # ANNOUNCE
        => \E j \in Indexes : j < i /\ transport[j].link = transport[i].prev

ChainIntegrityWitness ==
    /\ OfType(SUBSCRIBE) # {}
    /\ OfType(KEYLOAD) # {}
    /\ OfType(SIGNED_PACKET) # {}
    /\ OfType(TAGGED_PACKET) # {}

OpenAtMostOnce == Cardinality(OfType(ANNOUNCE)) <= 1

\* C10: connect returns a success value only when it found the announcement,
\* published a Subscribe envelope and set is_connected.
ConnectSuccessMeansConnected ==
    (last.op = "connect" /\ last.outcome = "ok")
    => /\ is_connected[last.who]
       /\ OfType(ANNOUNCE) # {}
       /\ \E i \in OfType(SUBSCRIBE) : transport[i].link = last.ret

\* C11: update_keyload, read_signed and read_tagged fail when they are called
\* on a subscriber that is not connected.
NotConnectedFails ==
    ( /\ last.op \in {"update_keyload", "read_signed", "read_tagged"}
      /\ ~is_connected[last.who] )
    => last.outcome # "ok"

\* The envelopes the author published after the announcement.
Chain == { i \in Indexes : transport[i].pk = AuthorPk /\ transport[i].ctype # ANNOUNCE }

\* C12: a call of get_next_message during which no fetch fails discovers every
\* envelope published since the call before it, oldest first: after it the
\* cursor of the subscriber is on the envelope the author published last.
PollExact ==
    ( /\ last.op = "get_next_message"
      /\ last.arg # FetchFailed
      /\ subscriber[last.who].cursor # <<>>
      /\ Chain # {} )
    => subscriber[last.who].cursor[1] =
          transport[CHOOSE i \in Chain : \A j \in Chain : j <= i].link

\* C13: get_next_message terminates without error: from any state its loop
\* reaches, after no more rounds than there are messages in the transport, a
\* round in which there is no next message, whatever the content types of the
\* messages it found.
PollTerminates ==
    /\ \A s \in instances :
          LET lib == NextMessages(s, subscriber[s], Len(transport))
          IN  lib.cursor = <<>> \/ Len(MessagesAt(NextId(lib))) # 1
    /\ last.op = "get_next_message" => last.outcome = "ok"

PollTerminatesWitness ==
    /\ last.op = "get_next_message"
    /\ last.arg # FetchFailed
    /\ subscriber[last.who].cursor # <<>>
    /\ subscriber[last.who].cursor[2] >= 4
    /\ \E k \in OfType(KEYLOAD), p \in OfType(SIGNED_PACKET), t \in OfType(TAGGED_PACKET) :
          /\ transport[p].prev = transport[k].link
          /\ transport[t].prev = transport[p].link
          /\ subscriber[last.who].cursor[1] = transport[t].link

Reads == {"read_signed", "read_tagged"}

\* The content type a read operation looks for.
Wanted(op) == IF op = "read_signed" THEN SIGNED_PACKET ELSE TAGGED_PACKET

\* C14: when a connected subscriber that has unwrapped no keyload reads, with
\* read_signed or read_tagged, the link of a Signed or Tagged envelope, the
\* call returns one pair whose public half is the envelope's and whose masked
\* half is absent.
MaskedAbsentWithoutKey ==
    \A i \in Packets :
        ( /\ last.op \in Reads /\ last.outcome = "ok"
          /\ is_connected[last.who]
          /\ \A k \in OfType(KEYLOAD) : transport[k].link \notin subscriber[last.who].store
          /\ transport[i].ctype = Wanted(last.op)
          /\ transport[i].link = last.arg )
        => last.ret = << <<Part(transport[i].public), None>> >>

\* C15: when a Signed envelope fetched by read_signed does not verify, the
\* value returned shows it: it is not the value the same call returns without
\* that envelope at the link.
SignatureFailureVisible ==
    ( /\ last.op = "read_signed" /\ last.outcome = "ok"
      /\ is_connected[last.who]
      /\ \E i \in OfType(SIGNED_PACKET) :
            transport[i].link = last.arg /\ transport[i].pk = IntruderPk )
    => last.ret #
          Response(SelectSeq(MessagesAt(last.arg),
                             LAMBDA e : /\ e.pk # IntruderPk
                                        /\ e.ctype = SIGNED_PACKET
                                        /\ CanUnwrap(subscriber[last.who].store,
                                                     e, last.who)))

\* C16: when the transport answers a read_signed or read_tagged and one of the
\* messages at the link has a header that does not parse, the call still
\* succeeds and returns the payload of every message it can unwrap.
ReadSurvivesBadHeader ==
    \A i \in Packets :
        ( /\ last.op \in Reads
          /\ is_connected[last.who]
          /\ ~(last.outcome = "err" /\ last.ret = NoTag)
          /\ HeaderFails(MessagesAt(last.arg))
          /\ transport[i].ctype = Wanted(last.op)
          /\ transport[i].link = last.arg
          /\ CanUnwrap(subscriber[last.who].store, transport[i], last.who) )
        => /\ last.outcome = "ok"
           /\ \E k \in 1..Len(last.ret) :
                last.ret[k] = <<Part(transport[i].public), Part(transport[i].masked)>>

\* C17: a call of add_subscriber, write_signed or write_tagged that returns an
\* error leaves announcement_id, last_keyload_tag and previous_msg_tag as they
\* were before the call.
FailedAuthorCallKeepsTags ==
    [][ ( /\ last'.op \in {"add_subscriber", "write_signed", "write_tagged"}
          /\ last'.outcome = "err" )
        => UNCHANGED <<announcement_id, last_keyload_tag, previous_msg_tag>> ]_vars

FailedAuthorCallKeepsTagsWitness ==
    /\ last.op = "write_signed"
    /\ last.outcome = "err"
    /\ announcement_id # NoTag
    /\ last_keyload_tag # NoTag
    /\ previous_msg_tag # NoTag
    /\ previous_msg_tag # last_keyload_tag

\* The keyload published last.
LastKeyload == CHOOSE k \in OfType(KEYLOAD) : \A j \in OfType(KEYLOAD) : j <= k

\* C18: the grants are cumulative: a keyload grants every subscriber the
\* keyloads before it grant and the subscriber add_subscriber was called for,
\* and a subscriber it grants that calls update_keyload on the keyload
\* published last, without a failure of the transport, has unwrapped it.
CumulativeGrants ==
    /\ \A i, j \in OfType(KEYLOAD) :
          i < j => transport[i].grantees \subseteq transport[j].grantees
    /\ (last.op = "add_subscriber" /\ last.outcome = "ok")
          => /\ transport[LastKeyload].link = last.ret
             /\ MessagesAt(last.arg)[1].pk \in transport[LastKeyload].grantees
    /\ ( /\ last.op = "update_keyload" /\ last.outcome = "ok"
         /\ is_connected[last.who]
         /\ OfType(KEYLOAD) # {}
         /\ last.arg = transport[LastKeyload].link
         /\ last.who \in transport[LastKeyload].grantees )
          => last.arg \in subscriber[last.who].store

CumulativeGrantsWitness ==
    /\ last.op = "update_keyload" /\ last.outcome = "ok"
    /\ \E i, j \in OfType(KEYLOAD) :
          /\ i < j
          /\ j = LastKeyload
          /\ Cardinality(transport[i].grantees) = 1
          /\ last.who \in transport[i].grantees
          /\ transport[j].grantees = Subscribers
          /\ last.arg = transport[j].link
          /\ \A s \in Subscribers : transport[j].link \in subscriber[s].store

\* C19: when a connected subscriber calls update_keyload on a keyload that
\* does not grant it, and the transport does not fail, the call returns
\* without error, the subscriber has not unwrapped the keyload, and
\* is_connected and subscription_link are as before.
UngrantedKeyloadIgnored ==
    [][ \A s \in instances, k \in OfType(KEYLOAD) :
          ( /\ is_connected[s]
            /\ s \notin transport[k].grantees
            /\ update_keyload(s, transport[k].link, TRUE, "proceed") )
          => /\ last'.outcome = "ok"
             /\ transport[k].link \notin subscriber'[s].store
             /\ is_connected' = is_connected
             /\ subscription_link' = subscription_link ]_vars

UngrantedKeyloadIgnoredWitness ==
    /\ last.op = "update_keyload" /\ last.outcome = "ok"
    /\ is_connected[last.who]
    /\ \E k \in OfType(KEYLOAD) :
          /\ last.arg = transport[k].link
          /\ last.who \notin transport[k].grantees
          /\ transport[k].link \notin subscriber[last.who].store

\* C20: every pair read_signed returns is the payload of a Signed envelope at
\* the link it was called with, and every pair read_tagged returns that of a
\* Tagged envelope: on the link of an envelope of another content type they
\* return no payload.
ReadsOnlyWantedType ==
    (last.op \in Reads /\ last.outcome = "ok")
    => \A k \in 1..Len(last.ret) :
          \E i \in OfType(Wanted(last.op)) :
              /\ transport[i].link = last.arg
              /\ last.ret[k] = <<Part(transport[i].public), Part(transport[i].masked)>>

ReadsOnlyWantedTypeWitness ==
    /\ last.op = "read_signed" /\ last.outcome = "ok"
    /\ is_connected[last.who]
    /\ last.ret = <<>>
    /\ \E i \in OfType(TAGGED_PACKET) :
          /\ transport[i].link = last.arg
          /\ CanUnwrap(subscriber[last.who].store, transport[i], last.who)

\* C21: a connect made, without a failure of the transport, while no
\* announcement is in the transport returns without error, leaves the
\* subscriber not connected and publishes nothing; a connect made once the
\* announcement is there publishes a Subscribe envelope of the subscriber and
\* sets is_connected.
ConnectRetries ==
    [][ \A s \in instances :
          connect(s, "none")
          => IF OfType(ANNOUNCE) = {}
             THEN /\ last'.outcome = "ok"
                  /\ transport' = transport
                  /\ is_connected' = is_connected
                  /\ ~is_connected'[s]
             ELSE /\ last'.outcome = "ok"
                  /\ is_connected'[s]
                  /\ Len(transport') = Len(transport) + 1
                  /\ transport'[Len(transport')].ctype = SUBSCRIBE
                  /\ transport'[Len(transport')].pk = s
                  /\ transport'[Len(transport')].link = subscription_link'[s] ]_vars

ConnectRetriesWitness ==
    /\ last.op = "connect" /\ last.outcome = "ok"
    /\ is_connected[last.who]
    /\ last.ret = subscription_link[last.who]
    /\ \E a \in OfType(ANNOUNCE), i \in OfType(SUBSCRIBE) :
          /\ a < i
          /\ transport[i].pk = last.who
          /\ transport[i].link = last.ret

\* The Subscribe envelopes a subscriber published.
SubscribesOf(s) == { i \in OfType(SUBSCRIBE) : transport[i].pk = s }

\* C22: a subscriber is connected exactly when its subscription_link is the
\* link of a Subscribe envelope it published, and not connected exactly when
\* subscription_link is the default link; is_connected, once true, stays true.
ConnectedIffSubscribed ==
    /\ [](\A s \in Subscribers :
            /\ is_connected[s]
                  <=> \E i \in SubscribesOf(s) : transport[i].link = subscription_link[s]
            /\ ~is_connected[s] <=> subscription_link[s] = DefaultMsgId)
    /\ [][\A s \in Subscribers : is_connected[s] => is_connected'[s]]_vars

ConnectedIffSubscribedWitness ==
    /\ last.op = "connect" /\ last.outcome = "err"
    /\ is_connected[last.who]
    /\ subscription_link[last.who] # DefaultMsgId
    /\ Cardinality(SubscribesOf(last.who)) = 1

====
